---- MODULE Spec2Model ----
(***************************************************************************)
(* The deadlock lab's bank (labs/deadlock/starter/bank.c with common.h):   *)
(* a fixed pool of accounts, one mutex per account, and num_threads        *)
(* workers that each perform `transfers` random transfers with the         *)
(* strategy selected by `mode` (0 naive, 1 timeout, 2 ordered, 3 trylock). *)
(* The model is the code as it stands in the repository.                   *)
(***************************************************************************)
EXTENDS Integers, Sequences, FiniteSets

(* ---------------- bounds of the exploration ---------------- *)
\* largest -t value explored
MaxThreads == 2
\* largest -n value explored
MaxTransfers == 2
\* largest num_threads * transfers explored
MaxWork == 2
\* number of accounts in the store (NUM_ACCOUNTS scaled down)
NumAccounts == 2
\* retry budget used when several workers run (max_retries scaled down)
MaxRetries == 1

(* ---------------- program constants ---------------- *)
INITIAL_BALANCE == 1000
\* int max_retries = 1000 in worker
FullRetries == 1000
\* what mutex_trylock_timed reports when the budget is exhausted
ETIMEDOUT == 110

Modes == 0..3
Threads == 1..MaxThreads
Accounts == 0..(NumAccounts - 1)
\* 1 + (rand() % 10) ranges over 1..10; the two extremes are explored
Amounts == {1, 10}
\* owner value of a free mutex
NoThread == 0
\* exit_code while main has not returned
Running == -1

VARIABLES
    mode,          \* main: mode (-m)
    num_threads,   \* main: num_threads (-t)
    transfers,     \* worker_args.transfers (-n)
    max_retries,   \* worker: max_retries
    balance,       \* accounts[a].balance
    lock,          \* accounts[a].lock: owning thread, NoThread when free
    stats,         \* struct stats
    pc,            \* each worker's position in worker / the strategy function
    i,             \* worker: loop index i
    from,          \* worker: from_id
    to,            \* worker: to_id
    amount,        \* worker: amount
    retry_count,   \* worker: retry_count
    ret,           \* return value of the worker's last strategy call
    calls,         \* strategy invocations made for the worker's current transfer
    took,          \* locks the worker's current strategy call acquired, in order
    retried,       \* times a worker went round its retry loop again (after the sleep)
    updates,       \* transfers whose debit and credit have both been written
    exit_code      \* main's return value, Running until main returns

vars == <<mode, num_threads, transfers, max_retries, balance, lock, stats, pc, i,
          from, to, amount, retry_count, ret, calls, took, retried, updates,
          exit_code>>

config == <<mode, num_threads, transfers, max_retries>>
locals == <<from, to, amount>>
history == <<retried, updates>>

Workers == 1..num_threads

(* ---------------- common.h ---------------- *)

\* init_accounts: every account gets initial_balance and a fresh (free) mutex
init_accounts(initial_balance) ==
    [balance |-> [a \in Accounts |-> initial_balance],
     lock    |-> [a \in Accounts |-> NoThread]]

RECURSIVE SumUpTo(_, _)
SumUpTo(bal, n) == IF n = 0 THEN 0 ELSE bal[n - 1] + SumUpTo(bal, n - 1)

\* verify_total: 1 when the balances add up to expected_total, else 0
verify_total(bal, expected_total) ==
    IF SumUpTo(bal, NumAccounts) # expected_total THEN 0 ELSE 1

(* ---------------- mutex and counter primitives ---------------- *)

\* a lock operation that does not wait for the owner
CanLock_NoExclusion(lk, a) == TRUE

\* pthread_mutex_lock returns only once the mutex is free
CanLock(lk, a) == lk[a] = NoThread

\* a lock call whose failure goes unnoticed: the mutex is not taken
Acquire_Nothing(lk, a, t) == lk

\* pthread_mutex_lock has returned: the caller owns the mutex
Acquire(lk, a, t) == [lk EXCEPT ![a] = t]

\* an unlock that is left out
Release_Nothing(lk, a) == lk

\* pthread_mutex_unlock
Release(lk, a) == [lk EXCEPT ![a] = NoThread]

\* the debit with the sign of the credit
Debit_SignSlip(bal, a, amt) == [bal EXCEPT ![a] = @ + amt]

\* from->balance -= amount
Debit(bal, a, amt) == [bal EXCEPT ![a] = @ - amt]

\* `=` written for `+=`
Credit_Assign(bal, a, amt) == [bal EXCEPT ![a] = amt]

\* to->balance += amount
Credit(bal, a, amt) == [bal EXCEPT ![a] = @ + amt]

\* __sync_fetch_and_add(&stats.<field>, 1)
Inc(st, field) == [st EXCEPT ![field] = @ + 1]

HeldBy(t) == {a \in Accounts : lock[a] = t}

(* ---------------- strategy functions that run without blocking ---------------- *)
(* Each maps the shared state at the call to the state at the return together    *)
(* with the return value.  None of them blocks or sleeps on a shared object in   *)
(* the code as it stands, so a call is one step of the calling thread.           *)

Result(r, bal, lk, st, tk) ==
    [ret |-> r, balance |-> bal, lock |-> lk, stats |-> st, took |-> tk]

\* a polling loop that takes the mutex and still falls through to the timeout
mutex_trylock_timed_TakesAndTimesOut(lk, a, t) ==
    [ret |-> ETIMEDOUT, lock |-> [lk EXCEPT ![a] = t]]

\* mutex_trylock_timed: the placeholder body, `return ETIMEDOUT`, whatever the
\* state of the mutex; the mutex is not touched
mutex_trylock_timed(lk, a, t) == [ret |-> ETIMEDOUT, lock |-> lk]

\* transfer_timeout, statement by statement; neither timeout branch increments
\* deadlock_detections and the second one does not release `from`
transfer_timeout(bal, lk, st, t, f, d, amt) ==
    LET r1 == mutex_trylock_timed(lk, f, t) IN
    IF r1.ret = ETIMEDOUT
    THEN Result(-1, bal, r1.lock, st, << >>)
    ELSE LET r2 == mutex_trylock_timed(r1.lock, d, t) IN
         IF r2.ret = ETIMEDOUT
         THEN Result(-1, bal, r2.lock, st, <<f>>)
         ELSE Result(0, Credit(Debit(bal, f, amt), d, amt),
                     Release(Release(r2.lock, d), f),
                     Inc(st, "successful_transfers"), <<f, d>>)

\* a body that forgets the success counter
transfer_ordered_NoCount(bal, lk, st, t, f, d, amt) ==
    [ret |-> 0, balance |-> bal, lock |-> lk, stats |-> st, took |-> << >>]

\* transfer_ordered: the body only counts a success
transfer_ordered(bal, lk, st, t, f, d, amt) ==
    Result(0, bal, lk, Inc(st, "successful_transfers"), << >>)

\* a body that counts a busy lock as a deadlock detection
transfer_trylock_CountsDetection(bal, lk, st, t, f, d, amt) ==
    [ret |-> -1, balance |-> bal, lock |-> lk,
     stats |-> [st EXCEPT !.deadlock_detections = @ + 1], took |-> << >>]

\* a body that debits `from` before it gives up
transfer_trylock_DebitThenFail(bal, lk, st, t, f, d, amt) ==
    [ret |-> -1, balance |-> [bal EXCEPT ![f] = @ - amt], lock |-> lk, stats |-> st,
     took |-> << >>]

\* transfer_trylock: the body is `return -1`
transfer_trylock(bal, lk, st, t, f, d, amt) ==
    Result(-1, bal, lk, st, << >>)

(* ---------------- worker ---------------- *)

\* the chain with mode 3 falling into the naive (blocking) branch
Dispatch_TrylockAsNaive(m) ==
    CASE m = 0 -> "naive_lock_from"
      [] m = 1 -> "call_timeout"
      [] m = 2 -> "call_ordered"
      [] m = 3 -> "naive_lock_from"

\* the chain with mode 2 falling into the naive branch
Dispatch_OrderedAsNaive(m) ==
    CASE m = 0 -> "naive_lock_from"
      [] m = 1 -> "call_timeout"
      [] m = 2 -> "naive_lock_from"
      [] m = 3 -> "call_trylock"

\* the if / else-if chain on args->mode: where the selected strategy starts
Dispatch(m) ==
    CASE m = 0 -> "naive_lock_from"
      [] m = 1 -> "call_timeout"
      [] m = 2 -> "call_ordered"
      [] m = 3 -> "call_trylock"

\* the retry counted on the wrong counter
CountRetry_AsDetection(st) == Inc(st, "deadlock_detections")

\* __sync_fetch_and_add(&stats.retries, 1) at the top of either retry loop
CountRetry(st) == Inc(st, "retries")

\* the continue without the i-- before it
Redraw_NoDecrement(n) == n + 1

\* i--; continue; and the loop's i++: the index after a draw of equal ids
Redraw(n) == (n - 1) + 1

\* retry_count++ > max_retries: the comparison sees the old value
CapExceeded_PostIncrement(rc, mx) == rc > mx

\* ++retry_count > max_retries, rc being retry_count before the increment
CapExceeded(rc, mx) == rc + 1 > mx

\* end of one iteration of the for loop: i++ and the block's locals go away
Advance(t) ==
    /\ i' = [i EXCEPT ![t] = @ + 1]
    /\ pc' = [pc EXCEPT ![t] = "loop"]
    /\ from' = [from EXCEPT ![t] = 0]
    /\ to' = [to EXCEPT ![t] = 0]
    /\ amount' = [amount EXCEPT ![t] = 0]
    /\ retry_count' = [retry_count EXCEPT ![t] = 0]
    /\ ret' = [ret EXCEPT ![t] = 0]
    /\ calls' = [calls EXCEPT ![t] = 0]
    /\ took' = [took EXCEPT ![t] = << >>]

\* for (i < transfers): draw from_id, to_id; equal ids give i--; continue; i++
\* (the iteration is drawn again); otherwise draw amount and dispatch on mode
SelectPair(t) ==
    /\ pc[t] = "loop"
    /\ i[t] < transfers
    /\ \E from_id \in Accounts, to_id \in Accounts, amt \in Amounts :
         IF from_id = to_id
         THEN /\ i' = [i EXCEPT ![t] = Redraw(@)]
              /\ UNCHANGED <<config, history, balance, lock, stats, pc, locals,
                             retry_count, ret, calls, took, exit_code>>
         ELSE /\ from' = [from EXCEPT ![t] = from_id]
              /\ to' = [to EXCEPT ![t] = to_id]
              /\ amount' = [amount EXCEPT ![t] = amt]
              /\ retry_count' = [retry_count EXCEPT ![t] = 0]
              /\ pc' = [pc EXCEPT ![t] = Dispatch(mode)]
              /\ UNCHANGED <<config, history, balance, lock, stats, i, ret, calls, took, exit_code>>

\* loop condition false: return NULL
WorkerDone(t) ==
    /\ pc[t] = "loop"
    /\ ~(i[t] < transfers)
    /\ pc' = [pc EXCEPT ![t] = "done"]
    /\ UNCHANGED <<config, history, balance, lock, stats, i, locals, retry_count, ret, calls,
                   took, exit_code>>

(* transfer_naive, one action per statement *)

\* pthread_mutex_lock(&from->lock)
NaiveLockFrom(t) ==
    /\ pc[t] = "naive_lock_from"
    /\ CanLock(lock, from[t])
    /\ lock' = Acquire(lock, from[t], t)
    /\ took' = [took EXCEPT ![t] = Append(@, from[t])]
    /\ calls' = [calls EXCEPT ![t] = @ + 1]
    /\ pc' = [pc EXCEPT ![t] = "naive_lock_to"]
    /\ UNCHANGED <<config, history, balance, stats, i, locals, retry_count, ret, exit_code>>

\* usleep(1); pthread_mutex_lock(&to->lock)
NaiveLockTo(t) ==
    /\ pc[t] = "naive_lock_to"
    /\ CanLock(lock, to[t])
    /\ lock' = Acquire(lock, to[t], t)
    /\ took' = [took EXCEPT ![t] = Append(@, to[t])]
    /\ pc' = [pc EXCEPT ![t] = "naive_debit"]
    /\ UNCHANGED <<config, history, balance, stats, i, locals, retry_count, ret, calls, exit_code>>

\* from->balance -= amount
NaiveDebit(t) ==
    /\ pc[t] = "naive_debit"
    /\ balance' = Debit(balance, from[t], amount[t])
    /\ pc' = [pc EXCEPT ![t] = "naive_credit"]
    /\ UNCHANGED <<config, history, lock, stats, i, locals, retry_count, ret, calls, took, exit_code>>

\* to->balance += amount
NaiveCredit(t) ==
    /\ pc[t] = "naive_credit"
    /\ balance' = Credit(balance, to[t], amount[t])
    /\ updates' = updates + 1
    /\ pc' = [pc EXCEPT ![t] = "naive_unlock_to"]
    /\ UNCHANGED <<config, retried, lock, stats, i, locals, retry_count, ret, calls, took, exit_code>>

\* pthread_mutex_unlock(&to->lock)
NaiveUnlockTo(t) ==
    /\ pc[t] = "naive_unlock_to"
    /\ lock' = Release(lock, to[t])
    /\ pc' = [pc EXCEPT ![t] = "naive_unlock_from"]
    /\ UNCHANGED <<config, history, balance, stats, i, locals, retry_count, ret, calls, took, exit_code>>

\* pthread_mutex_unlock(&from->lock)
NaiveUnlockFrom(t) ==
    /\ pc[t] = "naive_unlock_from"
    /\ lock' = Release(lock, from[t])
    /\ pc' = [pc EXCEPT ![t] = "naive_count"]
    /\ UNCHANGED <<config, history, balance, stats, i, locals, retry_count, ret, calls, took, exit_code>>

\* __sync_fetch_and_add(&stats.successful_transfers, 1); return
NaiveCount(t) ==
    /\ pc[t] = "naive_count"
    /\ stats' = Inc(stats, "successful_transfers")
    /\ ret' = [ret EXCEPT ![t] = 0]
    /\ pc' = [pc EXCEPT ![t] = "returned"]
    /\ UNCHANGED <<config, history, balance, lock, i, locals, retry_count, calls, took, exit_code>>

\* the state a call of a non-blocking strategy function leaves
Returned(t, r) ==
    /\ balance' = r.balance
    /\ lock' = r.lock
    /\ stats' = r.stats
    /\ ret' = [ret EXCEPT ![t] = r.ret]
    /\ took' = [took EXCEPT ![t] = r.took]
    /\ calls' = [calls EXCEPT ![t] = @ + 1]
    /\ updates' = updates + (IF r.balance # balance THEN 1 ELSE 0)
    /\ pc' = [pc EXCEPT ![t] = "returned"]
    /\ UNCHANGED <<config, retried, i, locals, retry_count, exit_code>>

\* transfer_timeout(from, to, amount)
TimeoutCall(t) ==
    /\ pc[t] = "call_timeout"
    /\ Returned(t, transfer_timeout(balance, lock, stats, t, from[t], to[t], amount[t]))

\* transfer_ordered(from, to, amount)
OrderedCall(t) ==
    /\ pc[t] = "call_ordered"
    /\ Returned(t, transfer_ordered(balance, lock, stats, t, from[t], to[t], amount[t]))

\* transfer_trylock(from, to, amount)
TrylockCall(t) ==
    /\ pc[t] = "call_trylock"
    /\ Returned(t, transfer_trylock(balance, lock, stats, t, from[t], to[t], amount[t]))

\* modes 0 and 2: the call returned, the iteration ends
WorkerNext(t) ==
    /\ pc[t] = "returned"
    /\ mode \in {0, 2}
    /\ Advance(t)
    /\ UNCHANGED <<config, history, balance, lock, stats, exit_code>>

\* modes 1 and 3: while (transfer_x(...) != 0) { retries++ ...
WorkerRetry(t) ==
    /\ pc[t] = "returned"
    /\ mode \in {1, 3}
    /\ IF ret[t] # 0
       THEN /\ stats' = CountRetry(stats)
            /\ pc' = [pc EXCEPT ![t] = "cap"]
            /\ UNCHANGED <<i, locals, retry_count, ret, calls, took>>
       ELSE /\ Advance(t)
            /\ UNCHANGED stats
    /\ UNCHANGED <<config, history, balance, lock, exit_code>>

\* if (++retry_count > max_retries) { failed_transfers++; break; } usleep(...);
WorkerCap(t) ==
    /\ pc[t] = "cap"
    /\ IF CapExceeded(retry_count[t], max_retries)
       THEN /\ stats' = Inc(stats, "failed_transfers")
            /\ Advance(t)
            /\ UNCHANGED retried
       ELSE /\ retry_count' = [retry_count EXCEPT ![t] = @ + 1]
            /\ retried' = retried + 1
            /\ pc' = [pc EXCEPT ![t] = Dispatch(mode)]
            /\ UNCHANGED <<stats, i, locals, ret, calls, took>>
    /\ UNCHANGED <<config, updates, balance, lock, exit_code>>

Step(t) ==
    \/ SelectPair(t)
    \/ WorkerDone(t)
    \/ NaiveLockFrom(t)
    \/ NaiveLockTo(t)
    \/ NaiveDebit(t)
    \/ NaiveCredit(t)
    \/ NaiveUnlockTo(t)
    \/ NaiveUnlockFrom(t)
    \/ NaiveCount(t)
    \/ TimeoutCall(t)
    \/ OrderedCall(t)
    \/ TrylockCall(t)
    \/ WorkerNext(t)
    \/ WorkerRetry(t)
    \/ WorkerCap(t)

(* ---------------- main ---------------- *)

AllDone == \A t \in Workers : pc[t] = "done"

ExpectedTotal == NumAccounts * INITIAL_BALANCE

\* every pthread_join has returned: verify_total decides the exit status
MainVerify ==
    /\ exit_code = Running
    /\ AllDone
    /\ exit_code' = IF verify_total(balance, ExpectedTotal) = 0 THEN 1 ELSE 0
    /\ UNCHANGED <<config, history, balance, lock, stats, pc, i, locals, retry_count, ret,
                   calls, took>>

\* main up to the pthread_create loop: options parsed, accounts initialised,
\* statistics zero, every worker at the top of its loop.  Several workers are
\* explored with the scaled retry budget, the source's budget with one worker
\* and one transfer.
Init ==
    /\ mode \in Modes
    /\ \/ /\ num_threads \in 1..MaxThreads
          /\ transfers \in 0..MaxTransfers
          /\ num_threads * transfers <= MaxWork
          /\ max_retries = MaxRetries
       \/ /\ num_threads = 1
          /\ transfers = 1
          /\ max_retries = FullRetries
    /\ balance = init_accounts(INITIAL_BALANCE).balance
    /\ lock = init_accounts(INITIAL_BALANCE).lock
    /\ stats = [successful_transfers |-> 0, failed_transfers |-> 0,
                deadlock_detections |-> 0, retries |-> 0]
    /\ pc = [t \in Workers |-> "loop"]
    /\ i = [t \in Workers |-> 0]
    /\ from = [t \in Workers |-> 0]
    /\ to = [t \in Workers |-> 0]
    /\ amount = [t \in Workers |-> 0]
    /\ retry_count = [t \in Workers |-> 0]
    /\ ret = [t \in Workers |-> 0]
    /\ calls = [t \in Workers |-> 0]
    /\ took = [t \in Workers |-> << >>]
    /\ retried = 0
    /\ updates = 0
    /\ exit_code = Running

Next ==
    \/ \E t \in Workers : SelectPair(t)
    \/ \E t \in Workers : WorkerDone(t)
    \/ \E t \in Workers : NaiveLockFrom(t)
    \/ \E t \in Workers : NaiveLockTo(t)
    \/ \E t \in Workers : NaiveDebit(t)
    \/ \E t \in Workers : NaiveCredit(t)
    \/ \E t \in Workers : NaiveUnlockTo(t)
    \/ \E t \in Workers : NaiveUnlockFrom(t)
    \/ \E t \in Workers : NaiveCount(t)
    \/ \E t \in Workers : TimeoutCall(t)
    \/ \E t \in Workers : OrderedCall(t)
    \/ \E t \in Workers : TrylockCall(t)
    \/ \E t \in Workers : WorkerNext(t)
    \/ \E t \in Workers : WorkerRetry(t)
    \/ \E t \in Workers : WorkerCap(t)
    \/ MainVerify

Spec == Init /\ [][Next]_vars

\* the scheduler runs every thread that can take a step
FairSpec == Spec /\ \A t \in Threads : WF_vars(t \in Workers /\ Step(t))

TypeOK ==
    /\ mode \in Modes
    /\ num_threads \in Threads
    /\ \A t \in Workers : from[t] \in Accounts /\ to[t] \in Accounts
    /\ \A a \in Accounts : lock[a] \in Workers \cup {NoThread}
    /\ exit_code \in {Running, 0, 1}

(* ---------------- predicates the properties use ---------------- *)

NoLockHeld == \A a \in Accounts : lock[a] = NoThread

TotalBalance == SumUpTo(balance, NumAccounts)

LockPcs == {"naive_lock_from", "naive_lock_to"}

\* the account whose mutex thread t is asking for
Requested(t) == IF pc[t] = "naive_lock_from" THEN from[t] ELSE to[t]

\* t is blocked in pthread_mutex_lock on a mutex u owns
WaitsFor(t, u) == pc[t] \in LockPcs /\ lock[Requested(t)] = u /\ u # NoThread

\* some set of threads in which everyone waits for a member of the set
WaitCycle ==
    \E S \in (SUBSET Workers) \ {{}} : \A t \in S : \E u \in S : WaitsFor(t, u)

\* two threads, each holding its `from` and asking for its `to`, which is the
\* other's `from`
OppositeDeadlock ==
    \E t1 \in Workers, t2 \in Workers :
        /\ t1 # t2
        /\ pc[t1] = "naive_lock_to" /\ pc[t2] = "naive_lock_to"
        /\ from[t1] = to[t2] /\ to[t1] = from[t2]
        /\ lock[from[t1]] = t1 /\ lock[from[t2]] = t2

\* transfers of thread t that have reached Success or PermanentFailure
Finished(t) == i[t] + (IF pc[t] = "returned" /\ ret[t] = 0 THEN 1 ELSE 0)

RECURSIVE SumFinished(_)
SumFinished(n) == IF n = 0 THEN 0 ELSE Finished(n) + SumFinished(n - 1)

Lower(a, b) == IF a < b THEN a ELSE b
Higher(a, b) == IF a < b THEN b ELSE a

\* thread t's call of the strategy returns in this step
CallReturns(t) == pc[t] \in {"call_timeout", "call_ordered", "call_trylock"} /\ pc'[t] = "returned"

(* ---------------- properties ---------------- *)

\* C1: once every worker is Done, the balances add up to
\* num_accounts * initial_balance, and main, once it has returned, returned 0.
C1_ConservationAfterJoin ==
    AllDone => /\ TotalBalance = ExpectedTotal
               /\ verify_total(balance, ExpectedTotal) = 1
               /\ exit_code \in {Running, 0}

C1_Witness ==
    /\ mode = 0 /\ num_threads = 2 /\ AllDone /\ exit_code = 0
    /\ stats.successful_transfers = 2
    /\ \E a \in Accounts : balance[a] # INITIAL_BALANCE

\* C2: in every state in which no account lock is held, the balances add up
\* to num_accounts * initial_balance.
C2_QuiescentConservation == NoLockHeld => TotalBalance = ExpectedTotal

C2_Witness ==
    /\ mode = 0 /\ NoLockHeld /\ ~AllDone
    /\ \E a \in Accounts : balance[a] # INITIAL_BALANCE
    /\ \E t \in Workers : pc[t] = "naive_lock_from"

\* C3: when transfer_timeout or transfer_trylock has returned failure, the
\* calling thread holds no account lock, neither `from` nor `to`.
C3_ReleaseBeforeReport ==
    \A t \in Workers :
        (mode \in {1, 3} /\ pc[t] \in {"returned", "cap"} /\ ret[t] # 0)
            => (lock[from[t]] # t /\ lock[to[t]] # t /\ HeldBy(t) = {})

C3_Witness ==
    \E t \in Workers : mode = 1 /\ pc[t] = "returned" /\ ret[t] = -1 /\ calls[t] = 1

\* C4: in timeout and trylock mode, a call that returns failure, the retry
\* bookkeeping that follows it and the abandoning of the transfer all leave
\* every balance as it was.
C4_AllOrNothing ==
    [][\A t \in Workers :
          (mode \in {1, 3} /\ pc'[t] # pc[t]
             /\ ((CallReturns(t) /\ ret'[t] # 0) \/ pc[t] \in {"returned", "cap"}))
              => balance' = balance]_vars

C4_Witness ==
    \E t \in Workers :
        /\ mode = 3 /\ stats.failed_transfers = 1 /\ i[t] = 1
        /\ \A a \in Accounts : balance[a] = INITIAL_BALANCE

\* C5: in ordered mode a call takes the lower-id lock first and then the
\* higher-id lock, whichever account is `from`.
C5_LowerIdFirst ==
    \A t \in Workers :
        (mode = 2 /\ pc[t] = "returned")
            => took[t] = <<Lower(from[t], to[t]), Higher(from[t], to[t])>>

\* C6: in ordered mode no set of threads waits in a cycle, and under fair
\* scheduling every worker reaches Done.
C6_OrderedDeadlockFree ==
    /\ [](mode = 2 => ~WaitCycle)
    /\ ((mode = 2) ~> AllDone)

C6_Witness ==
    /\ mode = 2 /\ num_threads = 2 /\ AllDone
    /\ stats.successful_transfers = num_threads * transfers
    /\ transfers = 1

\* C7: in naive mode two threads can hold each other's `to` lock; once they do,
\* they stay there for ever and main never gets past the join.
C7_NaiveDeadlockIsPermanent ==
    [][(mode = 0 /\ OppositeDeadlock)
          => (OppositeDeadlock' /\ ~AllDone' /\ exit_code' = Running)]_vars

C7_Witness == mode = 0 /\ OppositeDeadlock /\ WaitCycle

\* C8: every call transfer_ordered(from, to, amount) takes amount off
\* from.balance, adds it to to.balance and counts one success.
C8_OrderedMovesMoney ==
    [][\A t \in Workers :
          (mode = 2 /\ CallReturns(t))
              => /\ balance'[from[t]] = balance[from[t]] - amount[t]
                 /\ balance'[to[t]] = balance[to[t]] + amount[t]
                 /\ stats'.successful_transfers = stats.successful_transfers + 1]_vars

\* C9: successful_transfers + failed_transfers is the number of transfers
\* that have reached their end; with every worker Done it is
\* num_threads * transfers.
C9_OneTerminalCounter ==
    /\ stats.successful_transfers + stats.failed_transfers = SumFinished(num_threads)
    /\ AllDone => stats.successful_transfers + stats.failed_transfers
                      = num_threads * transfers

C9_Witness ==
    /\ mode = 3 /\ num_threads = 2 /\ transfers = 1 /\ AllDone
    /\ stats.failed_transfers = 2 /\ stats.successful_transfers = 0

\* C10 as stated: a transfer is attempted at most 1000 times.
C10_AtMost1000Attempts ==
    \A t \in Workers : mode \in {1, 3} => calls[t] <= 1000

\* C10 amended: a transfer is attempted at most max_retries + 1 times (1001
\* with the source's budget), and failed_transfers is incremented for it
\* exactly when that many attempts have failed.
C10_RetryCap ==
    /\ [](\A t \in Workers : mode \in {1, 3} => calls[t] <= max_retries + 1)
    /\ [][\A t \in Workers :
            (pc[t] = "cap" /\ pc'[t] # "cap")
               => ((stats'.failed_transfers = stats.failed_transfers + 1)
                      <=> (calls[t] = max_retries + 1))]_vars

C10_Witness ==
    /\ max_retries = FullRetries /\ mode = 1
    /\ stats.failed_transfers = 1 /\ stats.retries = FullRetries + 1

\* workers whose failed call has been counted and whose cap check is pending
AtCap == {t \in Workers : pc[t] = "cap"}

\* the accounts whose balance thread t is reading and writing right now
Writing(t) ==
    IF pc[t] = "naive_debit" THEN {from[t]}
    ELSE IF pc[t] = "naive_credit" THEN {to[t]}
    ELSE {}

\* thread t is outside every strategy function
Outside(t) == pc[t] \in {"loop", "returned", "cap", "done", "call_timeout",
                         "call_ordered", "call_trylock"}

\* C11 as stated: retries is the number of retries triggered; the failed call
\* that ends a transfer as a permanent failure adds nothing.  Read at the end
\* of the run, when no cap check is pending.
C11_RetriesEqualRetried == AllDone => stats.retries = retried

\* C11 amended: retries counts every failed strategy call, the one that ends
\* the transfer as a permanent failure included: it is the retries triggered,
\* plus the permanent failures, plus the failed calls whose cap check is
\* pending.
C11_RetriesCountFailedCalls ==
    stats.retries = retried + stats.failed_transfers + Cardinality(AtCap)

C11_Witness ==
    /\ mode = 3 /\ AllDone /\ retried >= 1 /\ stats.failed_transfers >= 1
    /\ stats.retries = retried + stats.failed_transfers

\* C12: in naive, ordered and trylock mode deadlock_detections is 0 in every
\* state, after a failure of transfer_trylock too.
C12_DetectionsOnlyInTimeout ==
    mode \in {0, 2, 3} => stats.deadlock_detections = 0

C12_Witness ==
    \E t \in Workers :
        /\ mode = 3 /\ pc[t] = "returned" /\ ret[t] = -1 /\ calls[t] = 2
        /\ stats.deadlock_detections = 0

\* C13: in timeout and trylock mode, under fair scheduling, every worker
\* reaches Done.
C13_RetryingModesTerminate == (mode \in {1, 3}) ~> AllDone

C13_Witness ==
    /\ mode = 1 /\ num_threads = 2 /\ transfers = 1 /\ AllDone
    /\ stats.failed_transfers = 2 /\ NoLockHeld

\* C14: a balance changes only in a step of a thread that holds that
\* account's lock before and after the step, and no two threads are inside a
\* read-modify-write of the same balance at once.
C14_LockProtectedMutation ==
    /\ [][\A a \in Accounts :
            balance'[a] # balance[a]
               => \E t \in Workers : pc'[t] # pc[t] /\ lock[a] = t /\ lock'[a] = t]_vars
    /\ [](\A t1 \in Workers, t2 \in Workers :
            t1 # t2 => Writing(t1) \cap Writing(t2) = {})

C14_Witness ==
    \E t \in Workers, u \in Workers :
        /\ mode = 0 /\ t # u
        /\ pc[t] = "naive_credit" /\ lock[from[t]] = t /\ lock[to[t]] = t
        /\ balance[from[t]] # INITIAL_BALANCE
        /\ pc[u] = "naive_lock_from"

\* C15: every call of transfer_timeout that returns failure increments
\* deadlock_detections by exactly one.
C15_EveryTimeoutCounted ==
    [][\A t \in Workers :
          (pc[t] = "call_timeout" /\ pc'[t] = "returned" /\ ret'[t] # 0)
              => stats'.deadlock_detections = stats.deadlock_detections + 1]_vars

\* C16: a call of transfer_trylock made while the `from` lock and the `to`
\* lock are free returns 0, moves amount from `from` to `to`, counts one
\* success and leaves both locks free.
C16_TrylockSucceedsWhenFree ==
    [][\A t \in Workers :
          (pc[t] = "call_trylock" /\ pc'[t] = "returned"
             /\ lock[from[t]] = NoThread /\ lock[to[t]] = NoThread)
              => /\ ret'[t] = 0
                 /\ balance'[from[t]] = balance[from[t]] - amount[t]
                 /\ balance'[to[t]] = balance[to[t]] + amount[t]
                 /\ stats'.successful_transfers = stats.successful_transfers + 1
                 /\ lock'[from[t]] = NoThread /\ lock'[to[t]] = NoThread]_vars

\* C17: mutex_trylock_timed, called on a mutex that is free at the first
\* attempt, returns 0 with the caller owning the mutex; it returns ETIMEDOUT
\* only for a mutex that was not available, and then leaves it alone.
C17_TimedLockTakesFreeMutex ==
    \A t \in Workers :
        pc[t] = "call_timeout" =>
            LET r == mutex_trylock_timed(lock, from[t], t) IN
            IF lock[from[t]] = NoThread
            THEN r.ret = 0 /\ r.lock[from[t]] = t
            ELSE r.ret = ETIMEDOUT /\ r.lock = lock

\* C18: a worker inside a transfer has two distinct accounts of the store
\* and an amount in 1..10; the loop index moves only when a dispatched
\* transfer ends, by one, so a worker is Done after exactly `transfers`
\* dispatched transfers.
C18_PairSelection ==
    /\ [](\A t \in Workers :
            /\ pc[t] \notin {"loop", "done"}
                 => /\ from[t] \in Accounts /\ to[t] \in Accounts
                    /\ from[t] # to[t]
                    /\ amount[t] \in 1..10
            /\ pc[t] = "done" => i[t] = transfers)
    /\ [][\A t \in Workers :
            i'[t] # i[t] => (pc[t] \in {"returned", "cap"} /\ i'[t] = i[t] + 1)]_vars

C18_Witness ==
    \E t \in Workers :
        /\ mode = 0 /\ num_threads = 1 /\ transfers = 2 /\ pc[t] = "done"
        /\ i[t] = 2 /\ updates = 2

\* C19: in naive and ordered mode failed_transfers, retries and
\* deadlock_detections stay 0, and successful_transfers counts transfers
\* whose debit and credit have been written: never more than those, and
\* exactly those once every worker is outside the strategy function.
C19_NaiveOrderedNeverFail ==
    mode \in {0, 2} =>
        /\ stats.failed_transfers = 0
        /\ stats.retries = 0
        /\ stats.deadlock_detections = 0
        /\ stats.successful_transfers <= updates
        /\ (\A t \in Workers : Outside(t)) => stats.successful_transfers = updates

\* C20: a thread outside the strategy function holds no account lock, a
\* thread asking for a lock does not own it, and with every worker Done every
\* lock is free.
C20_NoLockLeak ==
    /\ \A t \in Workers :
          /\ Outside(t) => HeldBy(t) = {}
          /\ pc[t] \in LockPcs => lock[Requested(t)] # t
    /\ AllDone => NoLockHeld

C20_Witness ==
    \E t \in Workers, u \in Workers :
        /\ mode = 0 /\ t # u
        /\ pc[t] = "returned" /\ took[t] = <<from[t], to[t]>> /\ HeldBy(t) = {}
        /\ HeldBy(u) # {}

====
